---- MODULE Spec2Model ----
(***************************************************************************)
(* Model of serenity-slash-decode (src/src/lib.rs, src/src/errors.rs):     *)
(* `process` walks the option tree of an interaction, building the command *)
(* path and the SlashMap of the options found where the walk stops; the    *)
(* typed accessors of SlashMap / SlashValue then read the map.             *)
(***************************************************************************)
EXTENDS Integers, Sequences, FiniteSets, TLC

VARIABLES interaction, options, path, map, i, pc, ret, result

vars == <<interaction, options, path, map, i, pc, ret, result>>

(***************************************************************************)
(* Bounds of the input space.                                              *)
(***************************************************************************)
\* largest number of option nodes below the root in a nested input
MaxNodes == 3
\* largest number of leaf options of a flat (un-nested) input
MaxOptions == 2

RootName == "mod"
Names == {"ban", "text"}

(***************************************************************************)
(* Option<T>: None is the empty sequence, Some(v) the one-element one.     *)
(***************************************************************************)
None == <<>>
Some(v) == <<v>>

(***************************************************************************)
(* ApplicationCommandOptionType, as far as process distinguishes it.       *)
(***************************************************************************)
SubKinds == {"SubCommand", "SubCommandGroup"}

(***************************************************************************)
(* ApplicationCommandInteractionDataOptionValue.  The enum is not closed   *)
(* for this crate (get_type_name ends in a wildcard arm); "Number" stands  *)
(* for the variants that only the wildcard arm matches.                    *)
(***************************************************************************)
NamedTags == {"String", "Integer", "Boolean", "User", "Channel", "Role"}
Tags == NamedTags \cup {"Number"}

Value(tag, val) == [tag |-> tag, val |-> val]

StringValues == {Value("String", "hi"), Value("String", "spam")}
IntegerValues == {Value("Integer", 42)}
BooleanValues == {Value("Boolean", TRUE)}
UserValues == {Value("User", [user |-> "u1", member |-> None]),
               Value("User", [user |-> "u1", member |-> Some("m1")])}
ChannelValues == {Value("Channel", "general")}
RoleValues == {Value("Role", "r1")}
NumberValues == {Value("Number", "1.5")}

\* an option node of the payload tree
Option(name, kind, resolved, opts) ==
    [name |-> name, kind |-> kind, resolved |-> resolved, options |-> opts]

\* kind and resolved value of the leaf options the platform sends
LeafPayloads ==
    {<<"String", None>>}
    \cup {<<"String", Some(v)>> : v \in StringValues}
    \cup {<<"Integer", Some(v)>> : v \in IntegerValues}
    \cup {<<"Boolean", Some(v)>> : v \in BooleanValues}
    \cup {<<"User", Some(v)>> : v \in UserValues}
    \cup {<<"Channel", Some(v)>> : v \in ChannelValues}
    \cup {<<"Role", Some(v)>> : v \in RoleValues}
    \cup {<<"Mentionable", Some(v)>> : v \in RoleValues}
    \cup {<<"Number", Some(v)>> : v \in NumberValues}

Leaves == {Option(n, p[1], p[2], <<>>) : n \in Names, p \in LeafPayloads}

\* the leaf options used inside nested inputs
NestedLeaves == {Option(n, "String", Some(Value("String", "hi")), <<>>) : n \in Names}

\* sequences over S of length at most n
RECURSIVE SeqsUpTo(_, _)
SeqsUpTo(S, n) ==
    IF n = 0 THEN {<<>>}
    ELSE LET shorter == SeqsUpTo(S, n - 1)
         IN  shorter \cup {Append(s, x) : s \in {t \in shorter : Len(t) = n - 1}, x \in S}

\* ordered option lists holding exactly n nodes in all; only SubCommand and
\* SubCommandGroup nodes have children
RECURSIVE Forest(_)
Forest(n) ==
    IF n = 0 THEN {<<>>}
    ELSE UNION {
           {<<first>> \o rest :
               first \in ({Option(nm, k, None, ch) :
                             nm \in Names, k \in SubKinds, ch \in Forest(c)}
                          \cup (IF c = 0 THEN NestedLeaves ELSE {})),
               rest \in Forest(n - 1 - c)}
           : c \in 0 .. (n - 1)}

NestedOptionLists == UNION {Forest(n) : n \in 0 .. MaxNodes}
FlatOptionLists == SeqsUpTo(Leaves, MaxOptions)

\* ApplicationCommandInteractionData: the root command
Interaction(name, opts) == [name |-> name, options |-> opts]

Inputs == {Interaction(RootName, o) : o \in NestedOptionLists \cup FlatOptionLists}

NoResult == [accessor |-> "none"]
NoReturn == [path |-> "", map |-> <<>>, returned |-> FALSE]

Init ==
    /\ interaction \in Inputs
    /\ options = interaction.options
    /\ path = <<interaction.name>>
    /\ map = <<>>
    /\ i = 1
    /\ pc = "traverse"
    /\ ret = NoReturn
    /\ result = NoResult

(***************************************************************************)
(* SlashValue and its accessors (impl SlashValue).                         *)
(***************************************************************************)
SlashValue(inner, name) == [inner |-> inner, name |-> name]

Ok(v) == [kind |-> "Ok", value |-> v]
MissingValue(name) == [kind |-> "MissingValue", name |-> name]
WrongType(expected, found, name) ==
    [kind |-> "WrongType", expected |-> expected, found |-> found, name |-> name]
\* Option::unwrap on None aborts the call
Panic == [kind |-> "Panic"]

\* from_pair losing the member
UserOrMember_from_pair_DropMember(user, member) == [variant |-> "User", user |-> user]

UserOrMember_from_pair(user, member) ==
    IF member # None
    THEN [variant |-> "Member", user |-> user, member |-> member[1]]
    ELSE [variant |-> "User", user |-> user]

\* get_type_name without its Role arm
get_type_name_NoRoleArm(self) ==
    IF self.inner = None THEN Panic
    ELSE LET tag == self.inner[1].tag
         IN  CASE tag = "String" -> Ok("String")
               [] tag = "Integer" -> Ok("Integer")
               [] tag = "Boolean" -> Ok("Boolean")
               [] tag = "User" -> Ok("User")
               [] tag = "Channel" -> Ok("Channel")
               [] OTHER -> Ok("Unknown")

get_type_name(self) ==
    IF self.inner = None THEN Panic
    ELSE LET tag == self.inner[1].tag
         IN  CASE tag = "String" -> Ok("String")
               [] tag = "Integer" -> Ok("Integer")
               [] tag = "Boolean" -> Ok("Boolean")
               [] tag = "User" -> Ok("User")
               [] tag = "Channel" -> Ok("Channel")
               [] tag = "Role" -> Ok("Role")
               [] OTHER -> Ok("Unknown")

\* expect_some reporting an empty cell without its name
expect_some_Unnamed(self) ==
    IF self.inner # None THEN Ok(self.inner[1]) ELSE MissingValue("")

expect_some(self) ==
    IF self.inner # None THEN Ok(self.inner[1]) ELSE MissingValue(self.name)

\* the Err(Error::WrongType {..}) arm shared by the accessors: found is
\* evaluated by get_type_name while the error is built
ErrWrongType(self, expected) ==
    LET found == get_type_name(self)
    IN  IF found.kind = "Ok" THEN WrongType(expected, found.value, self.name)
        ELSE found

\* get_string matching on the inner value without going through expect_some
SlashValue_get_string_Unchecked(self) ==
    IF self.inner # None /\ self.inner[1].tag = "String" THEN Ok(self.inner[1].val)
    ELSE ErrWrongType(self, "String")

SlashValue_get_string(self) ==
    LET e == expect_some(self)
    IN  IF e.kind # "Ok" THEN e
        ELSE IF e.value.tag = "String" THEN Ok(e.value.val)
        ELSE ErrWrongType(self, "String")

SlashValue_get_integer(self) ==
    LET e == expect_some(self)
    IN  IF e.kind # "Ok" THEN e
        ELSE IF e.value.tag = "Integer" THEN Ok(e.value.val)
        ELSE ErrWrongType(self, "Integer")

SlashValue_get_boolean(self) ==
    LET e == expect_some(self)
    IN  IF e.kind # "Ok" THEN e
        ELSE IF e.value.tag = "Boolean" THEN Ok(e.value.val)
        ELSE ErrWrongType(self, "Boolean")

SlashValue_get_user(self) ==
    LET e == expect_some(self)
    IN  IF e.kind # "Ok" THEN e
        ELSE IF e.value.tag = "User"
             THEN Ok(UserOrMember_from_pair(e.value.val.user, e.value.val.member))
        ELSE ErrWrongType(self, "User")

SlashValue_get_channel(self) ==
    LET e == expect_some(self)
    IN  IF e.kind # "Ok" THEN e
        ELSE IF e.value.tag = "Channel" THEN Ok(e.value.val)
        ELSE ErrWrongType(self, "Channel")

SlashValue_get_role(self) ==
    LET e == expect_some(self)
    IN  IF e.kind # "Ok" THEN e
        ELSE IF e.value.tag = "Role" THEN Ok(e.value.val)
        ELSE ErrWrongType(self, "Role")

\* get_mentionable without its Role arm
SlashValue_get_mentionable_UserOnly(self) ==
    LET e == expect_some(self)
    IN  IF e.kind # "Ok" THEN e
        ELSE IF e.value.tag = "User"
             THEN Ok([variant |-> "UserOrMember",
                      inner |-> [variant |-> "User", user |-> e.value.val.user]])
        ELSE ErrWrongType(self, "Mentionable")

SlashValue_get_mentionable(self) ==
    LET e == expect_some(self)
    IN  IF e.kind # "Ok" THEN e
        ELSE IF e.value.tag = "User"
             THEN Ok([variant |-> "UserOrMember",
                      inner |-> UserOrMember_from_pair(e.value.val.user,
                                                       e.value.val.member)])
        ELSE IF e.value.tag = "Role"
             THEN Ok([variant |-> "Role", inner |-> e.value.val])
        ELSE ErrWrongType(self, "Mentionable")

(***************************************************************************)
(* SlashMap: a HashMap<String, SlashValue>, here a function on its keys.   *)
(***************************************************************************)
SlashMap_new == <<>>

\* an insert that keeps the entry already stored under the key
HashMap_insert_KeepFirst(m, k, v) ==
    [x \in DOMAIN m \cup {k} |-> IF x \in DOMAIN m THEN m[x] ELSE v]

HashMap_insert(m, k, v) ==
    [x \in DOMAIN m \cup {k} |-> IF x = k THEN v ELSE m[x]]

Accessors == {"get_string", "get_integer", "get_boolean", "get_user",
              "get_channel", "get_role", "get_mentionable"}

SlashMap_get_string(m, name) ==
    IF name \in DOMAIN m THEN SlashValue_get_string(m[name]) ELSE MissingValue(name)
SlashMap_get_integer(m, name) ==
    IF name \in DOMAIN m THEN SlashValue_get_integer(m[name]) ELSE MissingValue(name)
SlashMap_get_boolean(m, name) ==
    IF name \in DOMAIN m THEN SlashValue_get_boolean(m[name]) ELSE MissingValue(name)
SlashMap_get_user(m, name) ==
    IF name \in DOMAIN m THEN SlashValue_get_user(m[name]) ELSE MissingValue(name)
SlashMap_get_channel(m, name) ==
    IF name \in DOMAIN m THEN SlashValue_get_channel(m[name]) ELSE MissingValue(name)
SlashMap_get_role(m, name) ==
    IF name \in DOMAIN m THEN SlashValue_get_role(m[name]) ELSE MissingValue(name)
SlashMap_get_mentionable(m, name) ==
    IF name \in DOMAIN m THEN SlashValue_get_mentionable(m[name]) ELSE MissingValue(name)

(***************************************************************************)
(* process: the traversal loop, the map loop and the return.               *)
(***************************************************************************)
\* a test that takes every first option for a subcommand
IsSubCommand_AnyKind(option) == TRUE

IsSubCommand(option) == option.kind \in SubKinds

\* a join that drops the separator
RECURSIVE Join_NoSeparator(_, _)
Join_NoSeparator(segments, sep) ==
    IF segments = <<>> THEN ""
    ELSE segments[1] \o Join_NoSeparator(Tail(segments), sep)

\* Vec<String>::join
RECURSIVE Join(_, _)
Join(segments, sep) ==
    IF segments = <<>> THEN ""
    ELSE IF Len(segments) = 1 THEN segments[1]
    ELSE segments[1] \o sep \o Join(Tail(segments), sep)

\* options.get(0) is None: break
LoopNone ==
    /\ pc = "traverse"
    /\ options = <<>>
    /\ pc' = "map"
    /\ map' = SlashMap_new
    /\ i' = 1
    /\ UNCHANGED <<interaction, options, path, ret, result>>

\* a descent that pushes the name but leaves the cursor where it is
LoopSubCommand_NoDescent ==
    /\ pc = "traverse"
    /\ options # <<>>
    /\ IsSubCommand(options[1])
    /\ path' = Append(path, options[1].name)
    /\ UNCHANGED <<interaction, options, map, i, pc, ret, result>>

\* the first option is a SubCommand or SubCommandGroup: push its name, descend
LoopSubCommand ==
    /\ pc = "traverse"
    /\ options # <<>>
    /\ IsSubCommand(options[1])
    /\ path' = Append(path, options[1].name)
    /\ options' = options[1].options
    /\ UNCHANGED <<interaction, map, i, pc, ret, result>>

\* the first option is anything else: break
LoopOther ==
    /\ pc = "traverse"
    /\ options # <<>>
    /\ ~IsSubCommand(options[1])
    /\ pc' = "map"
    /\ map' = SlashMap_new
    /\ i' = 1
    /\ UNCHANGED <<interaction, options, path, ret, result>>

\* a map loop that leaves SubCommand and SubCommandGroup options out
MapInsert_SkipSubCommands ==
    /\ pc = "map"
    /\ i <= Len(options)
    /\ map' = IF options[i].kind \in SubKinds THEN map
              ELSE [x \in DOMAIN map \cup {options[i].name} |->
                      IF x = options[i].name
                      THEN [inner |-> options[i].resolved, name |-> options[i].name]
                      ELSE map[x]]
    /\ i' = i + 1
    /\ UNCHANGED <<interaction, options, path, pc, ret, result>>

\* one iteration of `for option in options`
MapInsert ==
    /\ pc = "map"
    /\ i <= Len(options)
    /\ map' = HashMap_insert(map, options[i].name,
                             SlashValue(options[i].resolved, options[i].name))
    /\ i' = i + 1
    /\ UNCHANGED <<interaction, options, path, pc, ret, result>>

\* (path.join(" "), map)
Return ==
    /\ pc = "map"
    /\ i > Len(options)
    /\ ret' = [path |-> Join(path, " "), map |-> map, returned |-> TRUE]
    /\ pc' = "done"
    /\ UNCHANGED <<interaction, options, path, map, i, result>>

(***************************************************************************)
(* The caller reads the returned map through the SlashMap accessors.       *)
(***************************************************************************)
Call(accessor, name, out) ==
    /\ pc = "done"
    /\ result' = [accessor |-> accessor, name |-> name, out |-> out]
    /\ UNCHANGED <<interaction, options, path, map, i, pc, ret>>

get_string == \E name \in Names : Call("get_string", name, SlashMap_get_string(ret.map, name))
get_integer == \E name \in Names : Call("get_integer", name, SlashMap_get_integer(ret.map, name))
get_boolean == \E name \in Names : Call("get_boolean", name, SlashMap_get_boolean(ret.map, name))
get_user == \E name \in Names : Call("get_user", name, SlashMap_get_user(ret.map, name))
get_channel == \E name \in Names : Call("get_channel", name, SlashMap_get_channel(ret.map, name))
get_role == \E name \in Names : Call("get_role", name, SlashMap_get_role(ret.map, name))
get_mentionable ==
    \E name \in Names : Call("get_mentionable", name, SlashMap_get_mentionable(ret.map, name))

Process == LoopNone \/ LoopSubCommand \/ LoopOther \/ MapInsert \/ Return

Next ==
    \/ LoopNone
    \/ LoopSubCommand
    \/ LoopOther
    \/ MapInsert
    \/ Return
    \/ get_string
    \/ get_integer
    \/ get_boolean
    \/ get_user
    \/ get_channel
    \/ get_role
    \/ get_mentionable

Spec == Init /\ [][Next]_vars

\* process is straight-line code: once called it runs to its return
FairSpec == Spec /\ WF_vars(Process)

(***************************************************************************)
(* Vocabulary of the properties.                                           *)
(***************************************************************************)
Returned == pc = "done" /\ ret.returned
Called == result.accessor # "none"

\* names of the SubCommand/SubCommandGroup nodes met by taking first children
RECURSIVE ChainNames(_)
ChainNames(opts) ==
    IF opts # <<>> /\ opts[1].kind \in {"SubCommand", "SubCommandGroup"}
    THEN <<opts[1].name>> \o ChainNames(opts[1].options)
    ELSE <<>>

\* the child list at which the first-child descent stops
RECURSIVE StopChildren(_)
StopChildren(opts) ==
    IF opts # <<>> /\ opts[1].kind \in {"SubCommand", "SubCommandGroup"}
    THEN StopChildren(opts[1].options)
    ELSE opts

\* the segments, each but the first preceded by one space
RECURSIVE SpaceSeparated(_, _)
SpaceSeparated(head, rest) ==
    IF rest = <<>> THEN head
    ELSE SpaceSeparated(head \o " " \o rest[1], Tail(rest))

\* nesting height of an option list
RECURSIVE Height(_)
Height(opts) ==
    IF opts = <<>> THEN 0
    ELSE LET hs == {Height(opts[k].options) : k \in 1 .. Len(opts)}
         IN  1 + CHOOSE h \in hs : \A g \in hs : g <= h

FirstIsSub == interaction.options # <<>> /\ interaction.options[1].kind \in SubKinds

\* index of the last option of the residual list that carries the name
LastIndexOf(name) ==
    CHOOSE k \in 1 .. Len(options) :
        /\ options[k].name = name
        /\ \A j \in (k + 1) .. Len(options) : options[j].name # name

ResidualNames == {options[k].name : k \in 1 .. Len(options)}

\* the tag each accessor is named after
AccessorShape ==
    [get_string |-> "String", get_integer |-> "Integer", get_boolean |-> "Boolean",
     get_user |-> "User", get_channel |-> "Channel", get_role |-> "Role",
     get_mentionable |-> "Mentionable"]

\* the tags an accessor accepts
Accepts(accessor) ==
    IF accessor = "get_mentionable" THEN {"User", "Role"} ELSE {AccessorShape[accessor]}

\* the cell the last call looked up, when there is one
ReadPresent == Called /\ result.name \in DOMAIN ret.map
ReadNonEmpty == ReadPresent /\ ret.map[result.name].inner # None
ReadTag == ret.map[result.name].inner[1].tag

\* the Ok payload is the value v, unchanged
SameValue(accessor, payload, v) ==
    IF v.tag = "User"
    THEN LET u == IF accessor = "get_mentionable" THEN payload.inner ELSE payload
         IN  /\ accessor = "get_mentionable" => payload.variant = "UserOrMember"
             /\ u.user = v.val.user
             /\ (u.variant = "Member") = (v.val.member # None)
             /\ u.variant = "Member" => u.member = v.val.member[1]
    ELSE IF accessor = "get_mentionable"
    THEN payload.variant = "Role" /\ payload.inner = v.val
    ELSE payload = v.val

(***************************************************************************)
(* C1: the returned path is the root command's name followed, root to      *)
(* leaf, by the names of the SubCommand/SubCommandGroup nodes reached      *)
(* through first children, joined by single spaces; it has one segment     *)
(* more than the chain has nodes and starts with the root name.            *)
(***************************************************************************)
C1_PathIsChain ==
    Returned =>
        /\ path = <<interaction.name>> \o ChainNames(interaction.options)
        /\ Len(path) = Len(ChainNames(interaction.options)) + 1
        /\ path[1] = interaction.name
        /\ ret.path = SpaceSeparated(interaction.name, ChainNames(interaction.options))

C1_Witness ==
    /\ Returned
    /\ Len(ChainNames(interaction.options)) = 2
    /\ ret.path = "mod ban text"

(***************************************************************************)
(* C2: when the root's first child (if any) is not a SubCommand or         *)
(* SubCommandGroup, the path is the root name alone and the table is built *)
(* from the root's direct children, unchanged.                             *)
(***************************************************************************)
C2_NoSubCommand ==
    (~FirstIsSub /\ pc \in {"map", "done"}) =>
        /\ path = <<interaction.name>>
        /\ options = interaction.options
        /\ Returned =>
            /\ ret.path = interaction.name
            /\ DOMAIN ret.map = {interaction.options[k].name :
                                    k \in 1 .. Len(interaction.options)}

C2_Witness ==
    /\ Returned
    /\ Len(interaction.options) = 2
    /\ ~FirstIsSub
    /\ Cardinality(DOMAIN ret.map) = 2

(***************************************************************************)
(* C3 (as stated): every option of the residual list that carries a value  *)
(* reads back, through the accessor named after its value, as Ok with that *)
(* value.                                                                  *)
(***************************************************************************)
C3_RoundTripEveryOption ==
    (Returned /\ Called) =>
        \A k \in 1 .. Len(options) :
            (/\ options[k].name = result.name
             /\ options[k].resolved # None
             /\ options[k].resolved[1].tag \in NamedTags
             /\ result.accessor \in Accessors
             /\ AccessorShape[result.accessor] = options[k].resolved[1].tag)
            => /\ result.out.kind = "Ok"
               /\ SameValue(result.accessor, result.out.value, options[k].resolved[1])

(***************************************************************************)
(* C3 (amended): every option of the residual list that carries a value    *)
(* and is the last option of its name reads back, through the accessor     *)
(* named after its value, as Ok with that value.                           *)
(***************************************************************************)
C3_RoundTripLastOfName ==
    (Returned /\ Called) =>
        \A k \in 1 .. Len(options) :
            (/\ options[k].name = result.name
             /\ k = LastIndexOf(result.name)
             /\ options[k].resolved # None
             /\ options[k].resolved[1].tag \in NamedTags
             /\ result.accessor \in Accessors
             /\ AccessorShape[result.accessor] = options[k].resolved[1].tag)
            => /\ result.out.kind = "Ok"
               /\ SameValue(result.accessor, result.out.value, options[k].resolved[1])

C3_Witness ==
    /\ Returned
    /\ Len(options) = 2
    /\ options[1].name # options[2].name
    /\ result.accessor = "get_user"
    /\ options[2].name = result.name
    /\ options[2].resolved = Some(Value("User", [user |-> "u1", member |-> Some("m1")]))
    /\ result.out.kind = "Ok"
    /\ result.out.value.variant = "Member"

(***************************************************************************)
(* C4: an accessor call fails with MissingValue exactly when the name is   *)
(* no key of the table or its cell is empty, and the error then carries    *)
(* the requested name; an empty cell never yields WrongType.               *)
(***************************************************************************)
C4_MissingValue ==
    Called =>
        /\ (result.out.kind = "MissingValue") = ~ReadNonEmpty
        /\ result.out.kind = "MissingValue" => result.out.name = result.name

C4_Witness ==
    /\ Called
    /\ result.accessor = "get_integer"
    /\ ReadPresent
    /\ ~ReadNonEmpty
    /\ result.out.kind = "MissingValue"

(***************************************************************************)
(* C5 (as stated): on a present, non-empty cell whose tag the accessor     *)
(* does not accept the call fails with WrongType carrying the field name,  *)
(* the requested shape and, as found, the name of the cell's tag.          *)
(***************************************************************************)
C5_FoundIsTagName ==
    (ReadNonEmpty /\ ReadTag \notin Accepts(result.accessor)) =>
        /\ result.out.kind = "WrongType"
        /\ result.out.name = result.name
        /\ result.out.expected = AccessorShape[result.accessor]
        /\ result.out.found = ReadTag

(***************************************************************************)
(* C5 (amended): as stated, but found is the tag's name for String,        *)
(* Integer, Boolean, User, Channel and Role and "Unknown" for every other  *)
(* tag.                                                                    *)
(***************************************************************************)
C5_FoundIsTagNameOrUnknown ==
    (ReadNonEmpty /\ ReadTag \notin Accepts(result.accessor)) =>
        /\ result.out.kind = "WrongType"
        /\ result.out.name = result.name
        /\ result.out.expected = AccessorShape[result.accessor]
        /\ result.out.found = (IF ReadTag \in NamedTags THEN ReadTag ELSE "Unknown")

C5_Witness ==
    /\ ReadNonEmpty
    /\ result.accessor = "get_string"
    /\ ReadTag = "Integer"
    /\ result.out = WrongType("String", "Integer", result.name)

(***************************************************************************)
(* C6: on a present, non-empty cell get_mentionable succeeds exactly for   *)
(* User and Role values, returning the user/member or the role variant;    *)
(* every other accessor succeeds exactly for the one tag it is named       *)
(* after.                                                                  *)
(***************************************************************************)
C6_AcceptedTags ==
    ReadNonEmpty =>
        /\ (result.out.kind = "Ok") =
              (IF result.accessor = "get_mentionable"
               THEN ReadTag \in {"User", "Role"}
               ELSE ReadTag = AccessorShape[result.accessor])
        /\ (result.accessor = "get_mentionable" /\ result.out.kind = "Ok") =>
              result.out.value.variant =
                 (IF ReadTag = "User" THEN "UserOrMember" ELSE "Role")

C6_Witness ==
    /\ ReadNonEmpty
    /\ result.accessor = "get_mentionable"
    /\ ReadTag = "Role"
    /\ result.out.kind = "Ok"
    /\ result.out.value.variant = "Role"

(***************************************************************************)
(* C7: nothing aborts: the map loop stays inside the option list, and      *)
(* every accessor call ends in Ok, MissingValue or WrongType, never in the *)
(* failed unwrap of get_type_name.                                         *)
(***************************************************************************)
C7_NoAbort ==
    /\ pc \in {"traverse", "map", "done"}
    /\ pc = "map" => i \in 1 .. (Len(options) + 1)
    /\ Called => result.out.kind \in {"Ok", "MissingValue", "WrongType"}

C7_Witness ==
    /\ Called
    /\ ReadPresent
    /\ \E n \in DOMAIN ret.map : ret.map[n].inner = None
    /\ result.out.kind = "WrongType"

(***************************************************************************)
(* C8: when options of the residual list share a name, the table holds one *)
(* cell under it, carrying the resolved value of the last of them; the     *)
(* other names are unaffected.                                             *)
(***************************************************************************)
C8_LaterEntryWins ==
    Returned =>
        /\ DOMAIN ret.map = ResidualNames
        /\ \A n \in ResidualNames :
              ret.map[n] = [inner |-> options[LastIndexOf(n)].resolved, name |-> n]

C8_Witness ==
    /\ Returned
    /\ Len(options) = 2
    /\ options[1].name = options[2].name
    /\ options[1].resolved # options[2].resolved
    /\ ret.map[options[1].name].inner = options[2].resolved

(***************************************************************************)
(* C9: the traversal loop terminates: every iteration that does not stop   *)
(* moves the cursor to the child list of its first node, one level deeper, *)
(* the iterations number at most the height of the tree, and the loop is   *)
(* eventually left.                                                        *)
(***************************************************************************)
C9_LoopTerminates ==
    /\ [][(pc = "traverse" /\ pc' = "traverse") =>
             /\ options # <<>>
             /\ options' = options[1].options
             /\ Height(options') < Height(options)
             /\ Len(path') - 1 <= Height(interaction.options)]_vars
    /\ <>(pc # "traverse")

C9_Witness ==
    /\ pc = "map"
    /\ Len(path) = 3
    /\ Height(interaction.options) = 3

(***************************************************************************)
(* C10: the keys of the returned table are exactly the names of the        *)
(* children of the node at which the first-child descent stopped.          *)
(***************************************************************************)
C10_KeysAreStopChildren ==
    Returned =>
        DOMAIN ret.map = {StopChildren(interaction.options)[k].name :
                             k \in 1 .. Len(StopChildren(interaction.options))}

C10_Witness ==
    /\ Returned
    /\ Len(path) = 2
    /\ options # interaction.options
    /\ Len(options) = 2
    /\ options[1].name # options[2].name
    /\ options[2].kind \in SubKinds
    /\ options[2].name \in DOMAIN ret.map
====
